---- MODULE Spec2Model ----
(***************************************************************************)
(* palette-mapper: the distance metric, the nearest-colour search and the  *)
(* image traversal (sequential build and rayon build), as state machines.  *)
(*                                                                         *)
(* A colour (image::Rgba<u8>) is a tuple <<r, g, b, a>> of 0..255.         *)
(* A palette (Palette(Vec<Rgba<u8>>)) is a sequence of colours.            *)
(* An image buffer is a row-major sequence of pixels in the layout's own   *)
(* channel count: <<r,g,b>> (Rgb8), <<r,g,b,a>> (Rgba8), <<l>> (Luma8,     *)
(* the representative of the layouts that take the fallback arm).          *)
(***************************************************************************)
EXTENDS Integers, Sequences, FiniteSets, TLC

VARIABLES
    \* --- inputs of one map_image_to_palette call -------------------------
    layout,     \* DynamicImage variant of the caller's image
    width,      \* img.width()
    height,     \* img.height()
    img0,       \* the caller's pixel buffer as it was when the call was made
    palette,    \* the palette (also the palette of a nearest-colour search)
    \* --- build with the rayon feature -----------------------------------
    pc,         \* position of the parallel map_image_to_palette_inner
    img,        \* the caller's pixel buffer
    buf,        \* the fallback arm's temporary RGBA buffer (<<>> when none)
    pending,    \* pixel indices whose for_each task has not run yet
    owner,      \* owner[i]: the worker that ran pixel i's task (0: none yet)
    \* --- build without the rayon feature ---------------------------------
    pcSeq,      \* position of the sequential map_image_to_palette_inner
    imgSeq,     \* the caller's pixel buffer
    \* --- one distance measurement (Distance::new) ------------------------
    left,       \* first colour
    right,      \* second colour
    dist,       \* Distance.distance of the measurement (<<>>: not taken yet)
    prev,       \* the measurement taken before this one (<<>>: none)
    \* --- one nearest-colour search ---------------------------------------
    color,      \* the query colour
    found,      \* index of the returned entry; 0 is None; -1: not run yet
    \* --- one parse_hex_color call ----------------------------------------
    hexstr,     \* the argument: a string as its UTF-8 bytes
    parsed,     \* the outcome: a colour, None or Panic (<<>>: not run yet)
    \* --- serializing and deserializing a palette --------------------------
    doc,        \* the serialized sequence of entries (None: none yet)
    origin,     \* where doc came from: "hex", "array", "read" or "none"
    loaded,     \* the outcome of deserializing doc (<<>>: not run yet)
    via,        \* the Deserialize impl that ran: "serde.rs", "palette.rs"
    \* --- a palette that colours are added to ------------------------------
    pal0,       \* the vector the palette was made from (<<>>: default())
    added,      \* the arguments of the add_color calls so far, in order
    \* --- one call of the web front end's map_image ------------------------
    wfile,      \* argument img: what the image crate makes of the bytes
    wjson,      \* argument palette: what serde_json makes of the string
    walg,       \* argument algorithm
    wpc,        \* position in map_image
    wres,       \* the call's outcome ("none" while it runs)
    \* --- one run of the command line tool's main --------------------------
    cfile,      \* the input path: what the file system and the image crate
                \* make of it
    cpal,       \* the palette source given on the command line
    cpc,        \* position in main
    cstep,      \* the number of steps announced by steps.next()
    cres,       \* how main ends: "Ok", "Err" or "panic" ("none" while it runs)
    written,    \* whether the output image was written
    \* --- one colour taken through the conversions -------------------------
    cin,        \* the RGBA colour
    rgbOut,     \* cin.to_rgb() (<<>>: not converted yet)
    rgbaOut,    \* cin.to_rgb().to_rgba()
    xyzOut,     \* Xyz::from(cin)
    labOut,     \* Lab::from(Xyz::from(cin))
    cprev,      \* the colour converted before this one, with its results
    \* --- a nearest-colour search with any DistanceAlgorithm ---------------
    metric,     \* D::distance(color, c) for each colour c of the palette
    \* --- a StepBuilder, its client and the step threads -------------------
    interactive,    \* INTERACTIVE
    max_num,        \* StepBuilder.max_num
    current_num,    \* StepBuilder.current_num
    names,          \* the number of names left in StepBuilder.names
    last_step_bool, \* the step whose flag StepBuilder holds (0: None)
    done,           \* done[k]: the AtomicBool of step k
    tpc,            \* tpc[k]: position of the thread of step k
    stdout,         \* what was printed, in order
    mpc,            \* position of the client (main thread)
    calls,          \* the number of next() calls that returned
    ret             \* what the last next() call returned ("none": no call)

vars == <<layout, width, height, img0, palette, pc, img, buf, pending, owner,
          pcSeq, imgSeq, left, right, dist, prev, color, found,
          hexstr, parsed, doc, origin, loaded, via, pal0, added,
          wfile, wjson, walg, wpc, wres,
          cfile, cpal, cpc, cstep, cres, written,
          cin, rgbOut, rgbaOut, xyzOut, labOut, cprev, metric,
          interactive, max_num, current_num, names, last_step_bool, done,
          tpc, stdout, mpc, calls, ret>>

imgVars == <<layout, width, height, img0, pc, img, buf, pending, owner,
             pcSeq, imgSeq>>
distVars == <<left, right, dist, prev>>
hexVars == <<hexstr, parsed>>

\* the state of the operations outside lib.rs and distance.rs
serdeVars == <<doc, origin, loaded, via>>
palVars == <<pal0, added>>
webVars == <<wfile, wjson, walg, wpc, wres>>
cliVars == <<cfile, cpal, cpc, cstep, cres, written>>
convVars == <<cin, rgbOut, rgbaOut, xyzOut, labOut, cprev>>
genVars == <<metric>>
stepVars == <<interactive, max_num, current_num, names, last_step_bool, done,
              tpc, stdout, mpc, calls, ret>>
moreVars == <<genVars, stepVars>>
extVars ==
    <<hexVars, serdeVars, palVars, webVars, cliVars, convVars, moreVars>>

----------------------------------------------------------------------------
(* Bounds of the model *)

MaxPixels == 2      \* an image has at most this many pixels
MaxPal == 2         \* a palette has at most this many entries
NumWorkers == 2     \* size of the rayon worker pool
MaxPieces == 4      \* a drawn string has at most this many pieces
MaxAdds == 2        \* at most this many add_color calls are made
MaxSteps == 2       \* a builder is made from at most this many names, or from main's
MaxExtraCalls == 2  \* next() is called at most this often beyond the number of names

(* Program constants *)

\* a u32 is held as two 16-bit limbs <<high, low>>
Limb == 2 ^ 16
U32(v) == <<v \div Limb, v % Limb>>
U32Lt(a, b) == a[1] < b[1] \/ (a[1] = b[1] /\ a[2] < b[2])
U32Le(a, b) == a = b \/ U32Lt(a, b)

\* u32::MAX
U32_MAX == <<Limb - 1, Limb - 1>>

\* the outcome of a call that panicked
Panic == <<"panic">>

----------------------------------------------------------------------------
(* Colours used as inputs *)

White == <<255, 255, 255, 255>>
Black == <<0, 0, 0, 255>>
Grey == <<127, 127, 127, 255>>
Red == <<255, 0, 0, 255>>
WhiteClear == <<255, 255, 255, 0>>

\* the colours of the metric tests, and of the spec's scenario
DistColors ==
    {White, Black, Grey, WhiteClear,
     <<0, 255, 255, 255>>, <<255, 0, 255, 255>>, <<255, 255, 0, 255>>,
     <<200, 10, 10, 255>>}

----------------------------------------------------------------------------
(* distance.rs *)

\* i32 -> u32 try_into().unwrap(): "panic" when the value does not fit
TryIntoU32(v) == IF v >= 0 THEN U32(v) ELSE Panic

\* a mutant: every channel compared with itself
EuclidianDistanceAllSelf(l, r) ==
    TryIntoU32((l[1] - l[1]) ^ 2 + (l[2] - l[2]) ^ 2
               + (l[3] - l[3]) ^ 2 + (l[4] - l[4]) ^ 2)

\* a mutant: the differences summed without being squared
EuclidianDistanceSigned(l, r) ==
    TryIntoU32((l[1] - r[1]) + (l[2] - r[2]) + (l[3] - l[3]) + (l[4] - l[4]))

\* the i32 sum of EuclidianDistance::distance, as written: the blue and
\* alpha terms subtract left's channel from itself
EuclidianSum(l, r) ==
    (l[1] - r[1]) ^ 2 + (l[2] - r[2]) ^ 2 + (l[3] - l[3]) ^ 2 + (l[4] - l[4]) ^ 2

\* EuclidianDistance::distance
EuclidianDistance(l, r) == TryIntoU32(EuclidianSum(l, r))

\* Distance::new
Distance_new(l, r) == EuclidianDistance(l, r)

\* Distance::new_max
Distance_new_max == U32_MAX

----------------------------------------------------------------------------
(* lib.rs: closest_color_in_pallete *)

\* a mutant: a candidate replaces the current best when its distance is
\* smaller or equal
RECURSIVE ScanLe(_, _, _, _, _)
ScanLe(c, pal, i, min, col) ==
    IF i > Len(pal) THEN col
    ELSE LET d == Distance_new(c, pal[i])
         IN  IF U32Le(d, min) THEN ScanLe(c, pal, i + 1, d, i)
             ELSE ScanLe(c, pal, i + 1, min, col)

closest_le(c, pal) == ScanLe(c, pal, 1, Distance_new_max, 0)

\* the loop `for pcolor in palette`: i is the next entry, min the best
\* distance so far, col the index of the best entry so far (0: None)
RECURSIVE Scan(_, _, _, _, _)
Scan(c, pal, i, min, col) ==
    IF i > Len(pal) THEN col
    ELSE LET d == Distance_new(c, pal[i])
         IN  IF U32Lt(d, min) THEN Scan(c, pal, i + 1, d, i)
             ELSE Scan(c, pal, i + 1, min, col)

\* closest_color_in_pallete: the index of the entry the returned reference
\* points at, 0 for None
closest_color_in_pallete(c, pal) == Scan(c, pal, 1, Distance_new_max, 0)

\* Option::unwrap of the search result: the entry, or "panic" on None
Unwrap(pal, k) == IF k = 0 THEN Panic ELSE pal[k]

----------------------------------------------------------------------------
(* Input domains *)

\* palettes of at most n entries over the colours S, duplicates allowed
Palettes(S, n) == UNION {[1..k -> S] : k \in 0..n}

PaletteColors == {Red, White, <<255, 0, 0, 128>>}

\* pixels an image of each layout is drawn from
PixelsOf(l) ==
    CASE l = "Rgb8" -> {<<200, 10, 10>>, <<250, 250, 250>>}
      [] l = "Rgba8" -> {<<200, 10, 10, 255>>, <<250, 250, 250, 0>>}
      [] l = "Luma8" -> {<<0>>, <<255>>}

Layouts == {"Rgb8", "Rgba8", "Luma8"}

\* the states of the parts a specification does not exercise
ImageIdle ==
    /\ layout = "Rgba8" /\ width = 0 /\ height = 0 /\ img0 = <<>>
    /\ pc = "returned" /\ img = <<>> /\ buf = <<>> /\ pending = {}
    /\ owner = <<>>
    /\ pcSeq = "returned" /\ imgSeq = <<>>


DistIdle == left = White /\ right = White /\ dist = <<>> /\ prev = <<>>

SearchIdle == color = White /\ found = -1

HexIdle == hexstr = <<>> /\ parsed = <<>>

SerdeIdle ==
    doc = <<"none">> /\ origin = "none" /\ loaded = <<>> /\ via = "none"

PalIdle == pal0 = <<>> /\ added = <<>>

WebIdle ==
    /\ wfile = <<>> /\ wjson = <<>> /\ walg = "" /\ wpc = "idle"
    /\ wres = "none"

CliIdle ==
    /\ cfile = <<>> /\ cpal = <<>> /\ cpc = "idle" /\ cstep = 0
    /\ cres = "none" /\ written = FALSE

ConvIdle ==
    /\ cin = White /\ rgbOut = <<>> /\ rgbaOut = <<>> /\ xyzOut = <<>>
    /\ labOut = <<>> /\ cprev = <<>>

GenIdle == metric = <<>>

StepIdle ==
    /\ interactive = TRUE /\ max_num = 0 /\ current_num = 0 /\ names = 0
    /\ last_step_bool = 0 /\ done = <<>> /\ tpc = <<>> /\ stdout = <<>>
    /\ mpc = "idle" /\ calls = 0 /\ ret = "pending"

MoreIdle == GenIdle /\ StepIdle

ExtIdle ==
    /\ HexIdle /\ SerdeIdle /\ PalIdle /\ WebIdle /\ CliIdle /\ ConvIdle
    /\ MoreIdle

----------------------------------------------------------------------------
(* Measuring distances: Distance::new applied to drawn colours *)

InitDist ==
    /\ left \in DistColors /\ right \in DistColors
    /\ dist = <<>> /\ prev = <<>>
    /\ ImageIdle /\ SearchIdle /\ palette = <<>>
    /\ ExtIdle

\* Distance::new(left, right)
Measure ==
    /\ dist = <<>>
    /\ dist' = Distance_new(left, right)
    /\ UNCHANGED <<left, right, prev>>
    /\ UNCHANGED <<imgVars, palette, color, found, extVars>>

\* the next measurement's arguments; the last measurement is kept
NextMeasurement ==
    /\ dist # <<>>
    /\ prev' = <<left, right, dist>>
    /\ left' \in DistColors /\ right' \in DistColors
    /\ dist' = <<>>
    /\ UNCHANGED <<imgVars, palette, color, found, extVars>>

NextDist == Measure \/ NextMeasurement

DistSpec == InitDist /\ [][NextDist]_vars

----------------------------------------------------------------------------
(* Searching: closest_color_in_pallete applied to drawn inputs *)

InitSearch ==
    /\ color \in DistColors
    /\ palette \in Palettes(DistColors, MaxPal)
    /\ found = -1
    /\ ImageIdle /\ DistIdle /\ ExtIdle

Search ==
    /\ found = -1
    /\ found' = closest_color_in_pallete(color, palette)
    /\ UNCHANGED <<imgVars, distVars, palette, color, extVars>>

NextSearch == Search

SearchSpec == InitSearch /\ [][NextSearch]_vars

----------------------------------------------------------------------------
(* Searching with any DistanceAlgorithm: the trait lets distance return
   every u32 *)

\* values D::distance returns
DistValues == {U32(0), U32(7), <<Limb - 1, Limb - 2>>, U32_MAX}

\* the colours a palette holds
Colours(pal) == {pal[i] : i \in 1..Len(pal)}

\* the loop `for pcolor in palette` of closest_color_in_pallete::<D>, where
\* m[c] is D::distance(color, c)
RECURSIVE ScanWith(_, _, _, _, _)
ScanWith(m, pal, i, min, col) ==
    IF i > Len(pal) THEN col
    ELSE LET d == m[pal[i]]
         IN  IF U32Lt(d, min) THEN ScanWith(m, pal, i + 1, d, i)
             ELSE ScanWith(m, pal, i + 1, min, col)

\* closest_color_in_pallete::<D>: the index of the returned entry, 0 for None
closest_with(m, pal) == ScanWith(m, pal, 1, Distance_new_max, 0)

InitGen ==
    /\ color \in {White, Black}
    /\ palette \in Palettes(PaletteColors, MaxPal)
    /\ metric \in [Colours(palette) -> DistValues]
    /\ found = -1
    /\ ImageIdle /\ DistIdle /\ StepIdle
    /\ HexIdle /\ SerdeIdle /\ PalIdle /\ WebIdle /\ CliIdle /\ ConvIdle

\* closest_color_in_pallete(&color, &palette, &algorithm)
GenSearch ==
    /\ found = -1
    /\ found' = closest_with(metric, palette)
    /\ UNCHANGED <<imgVars, distVars, palette, color, metric, stepVars,
                   hexVars, serdeVars, palVars, webVars, cliVars, convVars>>

NextGen == GenSearch

GenSearchSpec == InitGen /\ [][NextGen]_vars

----------------------------------------------------------------------------
(* The image crate's pixel conversions, as lib.rs uses them *)

\* DynamicImage::get_pixel: the pixel as Rgba<u8>
get_pixel(l, p) ==
    CASE l = "Rgb8" -> <<p[1], p[2], p[3], 255>>
      [] l = "Rgba8" -> p
      [] l = "Luma8" -> <<p[1], p[1], p[1], 255>>

\* DynamicImage::put_pixel: the Rgba<u8> converted to the buffer's pixel
\* type (to_rgb drops alpha, to_luma weighs the channels)
put_pixel(l, c) ==
    CASE l = "Rgb8" -> <<c[1], c[2], c[3]>>
      [] l = "Rgba8" -> c
      [] l = "Luma8" -> <<(2126 * c[1] + 7152 * c[2] + 722 * c[3]) \div 10000>>

\* DynamicImage::into_rgba8 on one pixel
into_rgba8(l, p) == get_pixel(l, p)

NumPixels == width * height

\* position of pixel (px, py) in the row-major buffer
Index(px, py) == py * width + px + 1

----------------------------------------------------------------------------
(* lib.rs: map_image_to_palette, both builds run on the same arguments *)

Init ==
    /\ layout \in Layouts
    /\ width \in 0..MaxPixels /\ height \in 0..MaxPixels
    /\ width * height <= MaxPixels
    /\ img0 \in [1..(width * height) -> PixelsOf(layout)]
    /\ palette \in Palettes(PaletteColors, MaxPal)
    /\ pc = "call" /\ img = img0 /\ buf = <<>> /\ pending = {}
    /\ owner = [i \in 1..(width * height) |-> 0]
    /\ pcSeq = "call" /\ imgSeq = img0
    /\ DistIdle /\ SearchIdle /\ ExtIdle

\* --- the rayon build ------------------------------------------------------

\* `match img`: the arm taken, and the pixels par_enumerate_pixels_mut
\* hands out; the fallback arm clones the image into an RGBA buffer and
\* recurses on that buffer, which takes the ImageRgba8 arm
Dispatch ==
    /\ pc = "call"
    /\ pc' = CASE layout = "Rgb8" -> "rgb8"
               [] layout = "Rgba8" -> "rgba8"
               [] OTHER -> "fallback"
    /\ buf' = IF layout \in {"Rgb8", "Rgba8"} THEN buf
              ELSE [i \in 1..NumPixels |-> into_rgba8(layout, img[i])]
    /\ pending' = 1..NumPixels
    /\ UNCHANGED <<img, owner>>

\* a mutant of TaskRgba8: the query is read from the next pixel of the
\* buffer instead of the task's own
TaskRgba8Neighbour(i, w) ==
    /\ pc \in {"rgba8", "fallback"}
    /\ i \in pending
    /\ LET target == IF pc = "fallback" THEN buf ELSE img
           j == (i % NumPixels) + 1
           px == target[j]
           pixel == <<px[1], px[2], px[3], px[4]>>
           col == Unwrap(palette, closest_color_in_pallete(pixel, palette))
       IN  IF col = Panic
           THEN /\ pc' = "panicked"
                /\ buf' = <<>>
                /\ UNCHANGED <<img, pending, owner>>
           ELSE /\ IF pc = "fallback"
                   THEN buf' = [buf EXCEPT ![i] = col] /\ UNCHANGED img
                   ELSE img' = [img EXCEPT ![i] = col] /\ UNCHANGED buf
                /\ pending' = pending \ {i}
                /\ owner' = [owner EXCEPT ![i] = w]
                /\ UNCHANGED pc

\* a mutant of TaskRgb8: the whole four-channel entry is stored in the
\* three-channel buffer
TaskRgb8Whole(i, w) ==
    /\ pc = "rgb8"
    /\ i \in pending
    /\ LET px == img[i]
           pixel == <<px[1], px[2], px[3], 255>>
           col == Unwrap(palette, closest_color_in_pallete(pixel, palette))
       IN  IF col = Panic
           THEN /\ pc' = "panicked"
                /\ UNCHANGED <<img, pending, owner>>
           ELSE /\ img' = [img EXCEPT ![i] = col]
                /\ pending' = pending \ {i}
                /\ owner' = [owner EXCEPT ![i] = w]
                /\ UNCHANGED pc
    /\ UNCHANGED buf

\* a mutant of TaskRgb8: the entry's channels are stored in reverse order
TaskRgb8Reversed(i, w) ==
    /\ pc = "rgb8"
    /\ i \in pending
    /\ LET px == img[i]
           pixel == <<px[1], px[2], px[3], 255>>
           col == Unwrap(palette, closest_color_in_pallete(pixel, palette))
       IN  IF col = Panic
           THEN /\ pc' = "panicked"
                /\ UNCHANGED <<img, pending, owner>>
           ELSE /\ img' = [img EXCEPT ![i] = <<col[3], col[2], col[1]>>]
                /\ pending' = pending \ {i}
                /\ owner' = [owner EXCEPT ![i] = w]
                /\ UNCHANGED pc
    /\ UNCHANGED buf

\* the closure of the ImageRgb8 arm, run by worker w on pixel i
TaskRgb8(i, w) ==
    /\ pc = "rgb8"
    /\ i \in pending
    /\ LET px == img[i]
           pixel == <<px[1], px[2], px[3], 255>>
           col == Unwrap(palette, closest_color_in_pallete(pixel, palette))
       IN  IF col = Panic
           THEN /\ pc' = "panicked"
                /\ UNCHANGED <<img, pending, owner>>
           ELSE /\ img' = [img EXCEPT ![i] = <<col[1], col[2], col[3]>>]
                /\ pending' = pending \ {i}
                /\ owner' = [owner EXCEPT ![i] = w]
                /\ UNCHANGED pc
    /\ UNCHANGED buf

\* the closure of the ImageRgba8 arm, run by worker w on pixel i; in the
\* fallback arm's recursive call the buffer it is given is the temporary
TaskRgba8(i, w) ==
    /\ pc \in {"rgba8", "fallback"}
    /\ i \in pending
    /\ LET target == IF pc = "fallback" THEN buf ELSE img
           px == target[i]
           pixel == <<px[1], px[2], px[3], px[4]>>
           col == Unwrap(palette, closest_color_in_pallete(pixel, palette))
       IN  IF col = Panic
           THEN /\ pc' = "panicked"
                /\ buf' = <<>>
                /\ UNCHANGED <<img, pending, owner>>
           ELSE /\ IF pc = "fallback"
                   THEN buf' = [buf EXCEPT ![i] = col] /\ UNCHANGED img
                   ELSE img' = [img EXCEPT ![i] = col] /\ UNCHANGED buf
                /\ pending' = pending \ {i}
                /\ owner' = [owner EXCEPT ![i] = w]
                /\ UNCHANGED pc

\* for_each returns once every pixel's task has run, and the function
\* returns; the fallback arm's temporary is dropped, not written back
Join ==
    /\ pc \in {"rgb8", "rgba8", "fallback"}
    /\ pending = {}
    /\ pc' = "returned"
    /\ buf' = <<>>
    /\ UNCHANGED <<img, pending, owner>>

\* --- the build without rayon ----------------------------------------------

\* the nested loops from (px, py) on, over the buffer b: the buffer when
\* the loops end, Panic when an unwrap fails
RECURSIVE SeqLoop(_, _, _)
SeqLoop(b, px, py) ==
    IF px >= width THEN b
    ELSE IF py >= height THEN SeqLoop(b, px + 1, 0)
    ELSE LET p == get_pixel(layout, b[Index(px, py)])
             col == Unwrap(palette, closest_color_in_pallete(p, palette))
         IN  IF col = Panic THEN Panic
             ELSE SeqLoop([b EXCEPT ![Index(px, py)] = put_pixel(layout, col)],
                          px, py + 1)

\* the sequential map_image_to_palette_inner, from call to return or panic
SeqRun ==
    /\ pcSeq = "call"
    /\ LET out == SeqLoop(imgSeq, 0, 0)
       IN  IF out = Panic
           THEN pcSeq' = "panicked" /\ UNCHANGED imgSeq
           ELSE pcSeq' = "returned" /\ imgSeq' = out

inputVars == <<layout, width, height, img0, palette>>
parVars == <<pc, img, buf, pending, owner>>
seqVars == <<pcSeq, imgSeq>>
otherVars == <<left, right, dist, prev, color, found, extVars>>

Next ==
    \/ Dispatch /\ UNCHANGED <<inputVars, seqVars, otherVars>>
    \/ \E i \in 1..NumPixels, w \in 1..NumWorkers :
           TaskRgb8(i, w) /\ UNCHANGED <<inputVars, seqVars, otherVars>>
    \/ \E i \in 1..NumPixels, w \in 1..NumWorkers :
           TaskRgba8(i, w) /\ UNCHANGED <<inputVars, seqVars, otherVars>>
    \/ Join /\ UNCHANGED <<inputVars, seqVars, otherVars>>
    \/ SeqRun /\ UNCHANGED <<inputVars, parVars, otherVars>>

Spec == Init /\ [][Next]_vars

----------------------------------------------------------------------------
(* palette/serde.rs: hex strings.  A string is the sequence of its UTF-8
   bytes; an ASCII byte is written as its character, and the two bytes of
   the character U+00E9 as LeadByte and ContByte. *)

None == <<"none">>

LeadByte == "<C3>"
ContByte == "<A9>"

UpperDigits ==
    <<"0", "1", "2", "3", "4", "5", "6", "7", "8", "9",
      "A", "B", "C", "D", "E", "F">>
LowerDigits ==
    <<"0", "1", "2", "3", "4", "5", "6", "7", "8", "9",
      "a", "b", "c", "d", "e", "f">>

\* char::to_digit(16): the digit's value, or -1 for a byte that is none
to_digit(ch) ==
    IF \E k \in 1..16 : UpperDigits[k] = ch
    THEN (CHOOSE k \in 1..16 : UpperDigits[k] = ch) - 1
    ELSE IF \E k \in 1..16 : LowerDigits[k] = ch
         THEN (CHOOSE k \in 1..16 : LowerDigits[k] = ch) - 1
         ELSE -1

RECURSIVE Digits16(_, _)
\* the digit loop of from_str_radix: the value of the digits d after the
\* value acc, or -1 at the first byte that is no digit
Digits16(d, acc) ==
    IF d = <<>> THEN acc
    ELSE IF to_digit(Head(d)) = -1 THEN -1
         ELSE Digits16(Tail(d), acc * 16 + to_digit(Head(d)))

\* u8::from_str_radix(src, 16): the value, or -1 for Err.  An unsigned
\* type takes one leading '+' (not alone) and no '-'.
from_str_radix(src) ==
    IF src = <<>> THEN -1
    ELSE IF Len(src) = 1 /\ Head(src) \in {"+", "-"} THEN -1
    ELSE LET digits == IF Head(src) = "+" THEN Tail(src) ELSE src
             v == Digits16(digits, 0)
         IN  IF v > 255 THEN -1 ELSE v

\* str::is_char_boundary(i), i a byte offset
is_char_boundary(s, i) ==
    \/ i = 0
    \/ i = Len(s)
    \/ i < Len(s) /\ s[i + 1] # ContByte

\* &s[a..b]: the bytes a..b-1, or Panic when an end is no char boundary
Slice(s, a, b) ==
    IF is_char_boundary(s, a) /\ is_char_boundary(s, b)
    THEN SubSeq(s, a + 1, b)
    ELSE Panic

\* s.strip_prefix('#')
strip_prefix(s) ==
    IF s # <<>> /\ Head(s) = "#" THEN Tail(s) ELSE None

RECURSIVE Channels16(_, _, _, _)
\* the `u8::from_str_radix(&s[2k..2k+2], 16).ok()?` lines of one match
\* arm, in order: channel k of n is sliced and parsed after the channels
\* before it
Channels16(s, k, n, acc) ==
    IF k = n THEN acc
    ELSE LET sl == Slice(s, 2 * k, 2 * k + 2)
         IN  IF sl = Panic THEN Panic
             ELSE IF from_str_radix(sl) = -1 THEN None
                  ELSE Channels16(s, k + 1, n, Append(acc, from_str_radix(sl)))

\* parse_hex_color(s): Some(colour) as the colour, None, or Panic
parse_hex_color(str) ==
    LET s == strip_prefix(str)
    IN  IF s = None THEN None
        ELSE CASE Len(s) = 6 ->
                     LET c == Channels16(s, 0, 3, <<>>)
                     IN  IF c \in {None, Panic} THEN c ELSE Append(c, 255)
               [] Len(s) = 8 -> Channels16(s, 0, 4, <<>>)
               [] OTHER -> None

\* format!("{:02X}", v)
Hex2(v) == <<UpperDigits[(v \div 16) + 1], UpperDigits[(v % 16) + 1]>>

\* a mutant of to_hex: the alpha digits are never written
to_hex_opaque(c) ==
    <<"#">> \o Hex2(c[1]) \o Hex2(c[2]) \o Hex2(c[3])

\* a mutant of to_hex: the alpha digits are always written
to_hex_long(c) ==
    <<"#">> \o Hex2(c[1]) \o Hex2(c[2]) \o Hex2(c[3]) \o Hex2(c[4])

\* to_hex(color)
to_hex(c) ==
    IF c[4] = 255
    THEN <<"#">> \o Hex2(c[1]) \o Hex2(c[2]) \o Hex2(c[3])
    ELSE <<"#">> \o Hex2(c[1]) \o Hex2(c[2]) \o Hex2(c[3]) \o Hex2(c[4])

\* pieces the argument strings are put together from
Pieces ==
    { <<"0", "C">>, <<"f", "f">>, <<"E", "a">>, <<"+", "f">>, <<"-", "1">>,
      <<"g", "0">>, <<"7">>, <<LeadByte, ContByte>> }

RECURSIVE Concat(_)
Concat(ss) == IF ss = <<>> THEN <<>> ELSE Head(ss) \o Concat(Tail(ss))

\* the strings: an optional '#' and up to MaxPieces pieces
HexStrings ==
    { pre \o Concat(ps) :
        pre \in {<<>>, <<"#">>},
        ps \in UNION {[1..k -> Pieces] : k \in 0..MaxPieces} }

InitHex ==
    /\ hexstr \in HexStrings
    /\ parsed = <<>>
    /\ ImageIdle /\ DistIdle /\ SearchIdle /\ palette = <<>>
    /\ SerdeIdle /\ PalIdle /\ WebIdle /\ CliIdle /\ ConvIdle
    /\ MoreIdle

\* parse_hex_color(hexstr)
ParseHex ==
    /\ parsed = <<>>
    /\ parsed' = parse_hex_color(hexstr)
    /\ UNCHANGED hexstr
    /\ UNCHANGED <<imgVars, distVars, palette, color, found, serdeVars,
                   palVars, webVars, cliVars, convVars, moreVars>>

NextHex == ParseHex

HexSpec == InitHex /\ [][NextHex]_vars

----------------------------------------------------------------------------
(* Serializing a palette and deserializing a sequence of entries: the hex
   impls of palette/serde.rs and the array impls of palette.rs *)

\* ColorRepr::Hex(s), ColorRepr::Array(v)
Hex(str) == <<"Hex", str>>
Array(v) == <<"Array", v>>

Ok(p) == <<"Ok", p>>
Err == <<"Err">>

\* palette/serde.rs, Serialize: one hex string per colour, in order
serialize_hex(pal) == [i \in 1..Len(pal) |-> Hex(to_hex(pal[i]))]

\* palette.rs, Serialize: the four channels of each colour, in order
serialize_array(pal) == [i \in 1..Len(pal) |-> Array(pal[i])]

\* a mutant of ColorRepr_rgba: a longer array is cut to four channels
ColorRepr_rgba_cut(entry) ==
    IF entry[1] = "Hex"
    THEN IF parse_hex_color(entry[2]) = None THEN Err
         ELSE parse_hex_color(entry[2])
    ELSE CASE Len(entry[2]) = 3 -> Append(entry[2], 255)
           [] Len(entry[2]) >= 4 -> SubSeq(entry[2], 1, 4)
           [] OTHER -> Err

\* palette/serde.rs, the `match entry` of deserialize: the entry's colour,
\* Err, or Panic
ColorRepr_rgba(entry) ==
    IF entry[1] = "Hex"
    THEN IF parse_hex_color(entry[2]) = None THEN Err
         ELSE parse_hex_color(entry[2])
    ELSE CASE Len(entry[2]) = 3 -> Append(entry[2], 255)
           [] Len(entry[2]) = 4 -> entry[2]
           [] OTHER -> Err

RECURSIVE deserialize(_, _)
\* palette/serde.rs, the `for entry in raw` loop of deserialize
deserialize(raw, colors) ==
    IF raw = <<>> THEN Ok(colors)
    ELSE LET rgba == ColorRepr_rgba(Head(raw))
         IN  IF rgba \in {Err, Panic} THEN rgba
             ELSE deserialize(Tail(raw), Append(colors, rgba))

RECURSIVE visit_seq(_, _)
\* palette.rs, the `while let Some(raw) = seq.next_element::<Vec<u8>>()?`
\* loop of visit_seq; an entry that is no array is an error of next_element
visit_seq(seq, colors) ==
    IF seq = <<>> THEN Ok(colors)
    ELSE LET raw == Head(seq)
         IN  IF raw[1] # "Array" THEN Err
             ELSE CASE Len(raw[2]) = 3 ->
                          visit_seq(Tail(seq), Append(colors, Append(raw[2], 255)))
                    [] Len(raw[2]) = 4 ->
                          visit_seq(Tail(seq), Append(colors, raw[2]))
                    [] OTHER -> Err

\* the colours of the palettes that are serialized
SerdeColors ==
    { <<12, 45, 67, 200>>, <<87, 212, 45, 255>>, <<0, 0, 0, 0>>, White }

\* the entries of the sequences that are read from outside
DocEntries ==
    { Array(<<>>), Array(<<1, 2>>), Array(<<1, 2, 3>>), Array(<<9, 8, 7, 6>>),
      Array(<<1, 2, 3, 4, 5>>), Hex(<<"#", "0", "c", "2", "D", "4", "3">>),
      Hex(<<"0", "C">>) }

InitSerde ==
    /\ palette \in Palettes(SerdeColors, MaxPal)
    /\ doc = <<"none">> /\ origin = "none" /\ loaded = <<>> /\ via = "none"
    /\ ImageIdle /\ DistIdle /\ SearchIdle /\ HexIdle /\ PalIdle /\ WebIdle
    /\ CliIdle /\ ConvIdle
    /\ MoreIdle

\* serializer.serialize(palette) with the impl of palette/serde.rs
SerializeHex ==
    /\ origin = "none"
    /\ doc' = serialize_hex(palette)
    /\ origin' = "hex"
    /\ UNCHANGED <<loaded, via>>

\* serializer.serialize(palette) with the impl of palette.rs
SerializeArray ==
    /\ origin = "none"
    /\ doc' = serialize_array(palette)
    /\ origin' = "array"
    /\ UNCHANGED <<loaded, via>>

\* a sequence of entries that some other writer produced
ReadDoc ==
    /\ origin = "none"
    /\ doc' \in Palettes(DocEntries, MaxPal)
    /\ origin' = "read"
    /\ UNCHANGED <<loaded, via>>

\* Palette::deserialize with the impl of palette/serde.rs
DeserializeHex ==
    /\ origin # "none" /\ via = "none"
    /\ loaded' = deserialize(doc, <<>>)
    /\ via' = "serde.rs"
    /\ UNCHANGED <<doc, origin>>

\* Palette::deserialize with the impl of palette.rs
DeserializeArray ==
    /\ origin # "none" /\ via = "none"
    /\ loaded' = visit_seq(doc, <<>>)
    /\ via' = "palette.rs"
    /\ UNCHANGED <<doc, origin>>

serdeRest ==
    <<imgVars, distVars, palette, color, found, hexVars, palVars, webVars,
      cliVars, convVars, moreVars>>

NextSerde ==
    \/ SerializeHex /\ UNCHANGED serdeRest
    \/ SerializeArray /\ UNCHANGED serdeRest
    \/ ReadDoc /\ UNCHANGED serdeRest
    \/ DeserializeHex /\ UNCHANGED serdeRest
    \/ DeserializeArray /\ UNCHANGED serdeRest

SerdeSpec == InitSerde /\ [][NextSerde]_vars

----------------------------------------------------------------------------
(* palette.rs: Palette, a wrapper of Vec<Rgba<u8>> *)

\* Palette::default()
Palette_default == <<>>

\* Palette::from(vec)
Palette_from(vec) == vec

\* a mutant of add_color: a colour the palette holds is not added again
add_color_unique(p, col) ==
    IF \E i \in 1..Len(p) : p[i] = col THEN p ELSE Append(p, col)

\* Palette::add_color: self.0.push(color)
add_color(p, col) == Append(p, col)

\* Palette::len: self.0.len()
len(p) == Len(p)

\* Palette::is_empty: self.len() == 0
is_empty(p) == len(p) = 0

\* Palette::iter, collected: the entries the iterator yields, in order
iter(p) == [i \in 1..len(p) |-> p[i]]

\* PartialEq for Palette (derived): the vectors are equal
Palette_eq(p, q) == len(p) = len(q) /\ \A i \in 1..len(p) : p[i] = q[i]

InitPal ==
    /\ pal0 \in Palettes(PaletteColors, MaxPal)
    /\ palette = IF pal0 = <<>> THEN Palette_default ELSE Palette_from(pal0)
    /\ added = <<>>
    /\ ImageIdle /\ DistIdle /\ SearchIdle /\ HexIdle /\ SerdeIdle
    /\ WebIdle /\ CliIdle /\ ConvIdle
    /\ MoreIdle

\* palette.add_color(col)
AddColor(col) ==
    /\ Len(added) < MaxAdds
    /\ palette' = add_color(palette, col)
    /\ added' = Append(added, col)
    /\ UNCHANGED pal0
    /\ UNCHANGED <<imgVars, distVars, color, found, hexVars, serdeVars,
                   webVars, cliVars, convVars, moreVars>>

NextPal == \E col \in PaletteColors : AddColor(col)

PalSpec == InitPal /\ [][NextPal]_vars

----------------------------------------------------------------------------
(* web/wasm/src/lib.rs: map_image(img, palette, algorithm) *)

\* the names Algorithms::from_str knows
AlgorithmNames == {"EuclidianDistance"}

\* what the image crate makes of the bytes of img: whether the format is
\* guessed from them, whether they decode, whether the format can be
\* written, and the decoded image (one row of pixels)
WebFiles ==
    UNION { { [guessed |-> g, decodes |-> d, encodes |-> e,
               layout |-> l, pixels |-> px] :
                g \in BOOLEAN, d \in BOOLEAN, e \in BOOLEAN,
                px \in UNION {[1..n -> PixelsOf(l)] : n \in 1..MaxPixels} } :
            l \in Layouts }

\* the entries of the palette strings
WebEntries ==
    { Array(<<255, 0, 0>>), Hex(<<"#", "f", "f", "f", "f", "f", "f">>),
      Hex(<<"#", "f", LeadByte, ContByte, "f", "f", "f">>) }

\* what serde_json makes of the palette string: no JSON sequence of
\* entries, or the sequence
WebJsons == {<<"invalid">>} \cup {Ok(d) : d \in Palettes(WebEntries, MaxPal)}

InitWeb ==
    /\ wfile \in WebFiles
    /\ wjson \in WebJsons
    /\ walg \in AlgorithmNames \cup {"nearest"}
    /\ wpc = "guess" /\ wres = "none"
    /\ ImageIdle /\ DistIdle /\ SearchIdle /\ palette = <<>>
    /\ HexIdle /\ SerdeIdle /\ PalIdle /\ CliIdle /\ ConvIdle
    /\ MoreIdle

\* ImageReader::new(Cursor::new(img)).with_guessed_format(): reading an
\* in-memory cursor does not fail, and a format that is not recognised
\* leaves the reader without a format
WebGuess ==
    /\ wpc = "guess"
    /\ wpc' = "format"
    /\ UNCHANGED <<wres, imgVars, palette>>

\* reader.format().expect(..)
WebFormat ==
    /\ wpc = "format"
    /\ IF wfile.guessed
       THEN wpc' = "decode" /\ UNCHANGED wres
       ELSE wpc' = "done" /\ wres' = "panic"
    /\ UNCHANGED <<imgVars, palette>>

\* reader.decode().map_err(|_| MapErr::InvalidImg)?
WebDecode ==
    /\ wpc = "decode"
    /\ IF wfile.decodes
       THEN /\ wpc' = "palette"
            /\ layout' = wfile.layout
            /\ width' = Len(wfile.pixels) /\ height' = 1
            /\ img0' = wfile.pixels /\ imgSeq' = wfile.pixels
            /\ UNCHANGED <<wres, pc, img, buf, pending, owner, pcSeq>>
       ELSE /\ wpc' = "done" /\ wres' = "InvalidImg"
            /\ UNCHANGED imgVars
    /\ UNCHANGED palette

\* serde_json::from_str(palette).map_err(|_| MapErr::InvalidPaletteString)?
WebPalette ==
    /\ wpc = "palette"
    /\ LET pal == IF wjson[1] = "Ok" THEN deserialize(wjson[2], <<>>) ELSE Err
       IN  CASE pal = Panic ->
                    wpc' = "done" /\ wres' = "panic" /\ UNCHANGED palette
             [] pal = Err ->
                    /\ wpc' = "done" /\ wres' = "InvalidPaletteString"
                    /\ UNCHANGED palette
             [] OTHER ->
                    wpc' = "algorithm" /\ palette' = pal[2] /\ UNCHANGED wres
    /\ UNCHANGED imgVars

\* Algorithms::from_str(algorithm).map_err(|_| MapErr::InvalidAlgorithm)?,
\* evaluated before map_image_to_palette is called
WebAlgorithm ==
    /\ wpc = "algorithm"
    /\ IF walg \in AlgorithmNames
       THEN wpc' = "map" /\ UNCHANGED wres
       ELSE wpc' = "done" /\ wres' = "InvalidAlgorithm"
    /\ UNCHANGED <<imgVars, palette>>

\* map_image_to_palette(&mut buf, &pal, ..)
WebMap ==
    /\ wpc = "map"
    /\ LET out == SeqLoop(imgSeq, 0, 0)
       IN  IF out = Panic
           THEN wpc' = "done" /\ wres' = "panic" /\ UNCHANGED imgSeq
           ELSE wpc' = "encode" /\ imgSeq' = out /\ UNCHANGED wres
    /\ UNCHANGED <<layout, width, height, img0, pc, img, buf, pending, owner,
                   pcSeq, palette>>

\* buf.write_to(&mut output, format).map_err(|_| MapErr::FailedToEncode)?
\* and Ok(output.into_inner())
WebEncode ==
    /\ wpc = "encode"
    /\ wpc' = "done"
    /\ wres' = IF wfile.encodes THEN "Ok" ELSE "FailedToEncode"
    /\ UNCHANGED <<imgVars, palette>>

webRest ==
    <<wfile, wjson, walg, distVars, color, found, hexVars, serdeVars, palVars,
      cliVars, convVars, moreVars>>

NextWeb ==
    \/ WebGuess /\ UNCHANGED webRest
    \/ WebFormat /\ UNCHANGED webRest
    \/ WebDecode /\ UNCHANGED webRest
    \/ WebPalette /\ UNCHANGED webRest
    \/ WebAlgorithm /\ UNCHANGED webRest
    \/ WebMap /\ UNCHANGED webRest
    \/ WebEncode /\ UNCHANGED webRest

WebSpec == InitWeb /\ [][NextWeb]_vars

----------------------------------------------------------------------------
(* cli/src/main.rs: main, with open_image *)

\* what the file system and the image crate make of the input path:
\* whether the file opens, whether its first bytes can be read, whether the
\* format is guessed, whether the bytes decode, whether the output can be
\* saved, and the decoded image (one row of pixels)
CliFiles ==
    UNION { { [opens |-> o, reads |-> r, guessed |-> g, decodes |-> d,
               saves |-> sv, layout |-> l, pixels |-> px] :
                o \in BOOLEAN, r \in BOOLEAN, g \in BOOLEAN, d \in BOOLEAN,
                sv \in BOOLEAN,
                px \in UNION {[1..n -> PixelsOf(l)] : n \in 1..MaxPixels} } :
            l \in Layouts }

\* the entries of the palette files
CliEntries ==
    { Array(<<255, 0, 0>>), Hex(<<"#", "f", "f", "f", "f", "f", "f">>),
      Hex(<<"#", "f", LeadByte, ContByte, "f", "f", "f">>) }

\* the palette(s) of the built-in themes
ThemePalettes == { <<Red, White>> }

\* the palette source of the command line: a built-in theme (--base16,
\* --base24), or a path (--palette) with its extension ("": none), whether
\* the file opens, and what serde_json makes of its content
CliPalettes ==
    { [kind |-> "theme", theme |-> t, ext |-> "", opens |-> TRUE,
       json |-> <<"invalid">>] : t \in ThemePalettes }
    \cup
    { [kind |-> "path", theme |-> <<>>, ext |-> e, opens |-> o, json |-> j] :
        e \in {"", "json", "JSON", "txt"}, o \in BOOLEAN,
        j \in {<<"invalid">>} \cup {Ok(d) : d \in Palettes(CliEntries, 1)} }

\* read_palette(path): Ok(palette), Err or Panic
read_palette(src) ==
    IF src.ext = "json"
    THEN IF ~src.opens THEN Err
         ELSE IF src.json[1] # "Ok" THEN Err
              ELSE deserialize(src.json[2], <<>>)
    ELSE Err

\* Cli::get_palette
get_palette(src) ==
    IF src.kind = "theme" THEN Ok(src.theme) ELSE read_palette(src)

\* open_image(path): Ok(image), Err or Panic.  with_guessed_format leaves
\* the reader without a format when it recognises none, and decode() is
\* then an error, as it is for bytes that do not decode.
open_image(f) ==
    IF ~f.opens THEN Err
    ELSE IF ~f.reads THEN Err
    ELSE IF ~f.guessed \/ ~f.decodes THEN Panic
    ELSE Ok(f.pixels)

InitCli ==
    /\ cfile \in CliFiles
    /\ cpal \in CliPalettes
    /\ cpc = "palette" /\ cstep = 0 /\ cres = "none" /\ written = FALSE
    /\ ImageIdle /\ DistIdle /\ SearchIdle /\ palette = <<>>
    /\ HexIdle /\ SerdeIdle /\ PalIdle /\ WebIdle /\ ConvIdle
    /\ MoreIdle

\* steps.next().unwrap(); let palette = cli.get_palette()?;
CliLoadPalette ==
    /\ cpc = "palette"
    /\ cstep' = cstep + 1
    /\ LET pal == get_palette(cpal)
       IN  CASE pal = Err ->
                    cpc' = "done" /\ cres' = "Err" /\ UNCHANGED palette
             [] pal = Panic ->
                    cpc' = "done" /\ cres' = "panic" /\ UNCHANGED palette
             [] OTHER ->
                    cpc' = "image" /\ palette' = pal[2] /\ UNCHANGED cres
    /\ UNCHANGED <<imgVars, written>>

\* steps.next().unwrap(); let mut img = open_image(&cli.input)?;
CliLoadImage ==
    /\ cpc = "image"
    /\ cstep' = cstep + 1
    /\ LET opened == open_image(cfile)
       IN  CASE opened = Err ->
                    cpc' = "done" /\ cres' = "Err" /\ UNCHANGED imgVars
             [] opened = Panic ->
                    cpc' = "done" /\ cres' = "panic" /\ UNCHANGED imgVars
             [] OTHER ->
                    /\ cpc' = "convert"
                    /\ layout' = cfile.layout
                    /\ width' = Len(opened[2]) /\ height' = 1
                    /\ img0' = opened[2] /\ imgSeq' = opened[2]
                    /\ UNCHANGED <<cres, pc, img, buf, pending, owner, pcSeq>>
    /\ UNCHANGED <<palette, written>>

\* steps.next().unwrap(); map_image_to_palette(&mut img, &palette, ..);
CliConvert ==
    /\ cpc = "convert"
    /\ cstep' = cstep + 1
    /\ LET out == SeqLoop(imgSeq, 0, 0)
       IN  IF out = Panic
           THEN cpc' = "done" /\ cres' = "panic" /\ UNCHANGED imgSeq
           ELSE cpc' = "save" /\ imgSeq' = out /\ UNCHANGED cres
    /\ UNCHANGED <<layout, width, height, img0, pc, img, buf, pending, owner,
                   pcSeq, palette, written>>

\* steps.next().unwrap(); img.save(output_path).map_err(..)?;
\* assert!(steps.next().is_none()); Ok(())
CliSave ==
    /\ cpc = "save"
    /\ cstep' = cstep + 1
    /\ cpc' = "done"
    /\ IF cfile.saves
       THEN cres' = "Ok" /\ written' = TRUE
       ELSE cres' = "Err" /\ UNCHANGED written
    /\ UNCHANGED <<imgVars, palette>>

cliRest ==
    <<cfile, cpal, distVars, color, found, hexVars, serdeVars, palVars, webVars,
      convVars, moreVars>>

NextCli ==
    \/ CliLoadPalette /\ UNCHANGED cliRest
    \/ CliLoadImage /\ UNCHANGED cliRest
    \/ CliConvert /\ UNCHANGED cliRest
    \/ CliSave /\ UNCHANGED cliRest

CliSpec == InitCli /\ [][NextCli]_vars

----------------------------------------------------------------------------
(* conversions.rs: RgbConversionExt and the conversions to Xyz and Lab.
   An f32 the code computes is written as the term that names its
   computation; the branches the code takes are computed. *)

\* a mutant of to_rgb_of_rgba: the channels are multiplied by alpha
to_rgb_premultiplied(c) ==
    <<(c[1] * c[4]) \div 255, (c[2] * c[4]) \div 255, (c[3] * c[4]) \div 255>>

\* RgbConversionExt for Rgba<u8>: to_rgb
to_rgb_of_rgba(c) == <<c[1], c[2], c[3]>>

\* RgbConversionExt for Rgb<u8>: to_rgba
to_rgba_of_rgb(c) == <<c[1], c[2], c[3], 255>>

\* the closure of From<Rgb<u8>> for Xyz: normalized = v / 255, and
\* normalized <= 0.04045 decides between normalized / 12.92 and
\* ((normalized + 0.055) / 1.055).powf(2.4)
gama_corrected(v) ==
    IF v * 100000 <= 4045 * 255 THEN <<"div12.92", v>> ELSE <<"powf2.4", v>>

\* From<Rgb<u8>> for Xyz: the rows of D65_S_RGB_MATRIX folded over the
\* gamma-corrected channels
Xyz_from_rgb(c) ==
    <<"D65_S_RGB_MATRIX", gama_corrected(c[1]), gama_corrected(c[2]),
      gama_corrected(c[3])>>

\* From<Rgba<u8>> for Xyz: value.to_rgb().into()
Xyz_from_rgba(c) == Xyz_from_rgb(to_rgb_of_rgba(c))

\* From<Xyz> for Lab
Lab_from_xyz(x) == <<"Lab", x>>

\* the colours that are converted
ConvColors ==
    { <<r, g, 78, a>> : r \in {0, 255}, g \in {10, 11}, a \in {0, 128, 255} }

InitConv ==
    /\ cin \in ConvColors
    /\ rgbOut = <<>> /\ rgbaOut = <<>> /\ xyzOut = <<>> /\ labOut = <<>>
    /\ cprev = <<>>
    /\ ImageIdle /\ DistIdle /\ SearchIdle /\ palette = <<>>
    /\ HexIdle /\ SerdeIdle /\ PalIdle /\ WebIdle /\ CliIdle
    /\ MoreIdle

convRest ==
    <<imgVars, distVars, palette, color, found, hexVars, serdeVars, palVars,
      webVars, cliVars,
      moreVars>>

\* cin.to_rgb(), .to_rgba() of that, Xyz::from(cin) and Lab::from of that
Convert ==
    /\ rgbOut = <<>>
    /\ rgbOut' = to_rgb_of_rgba(cin)
    /\ rgbaOut' = to_rgba_of_rgb(to_rgb_of_rgba(cin))
    /\ xyzOut' = Xyz_from_rgba(cin)
    /\ labOut' = Lab_from_xyz(Xyz_from_rgba(cin))
    /\ UNCHANGED <<cin, cprev>>
    /\ UNCHANGED convRest

\* the next colour; the last conversion is kept
NextColor ==
    /\ rgbOut # <<>>
    /\ cprev' = <<cin, xyzOut, labOut>>
    /\ cin' \in ConvColors
    /\ rgbOut' = <<>> /\ rgbaOut' = <<>> /\ xyzOut' = <<>> /\ labOut' = <<>>
    /\ UNCHANGED convRest

NextConv == Convert \/ NextColor

ConvSpec == InitConv /\ [][NextConv]_vars

----------------------------------------------------------------------------
(* step.rs: StepBuilder and the step threads, driven as main drives them *)

\* the number of names main gives the builder
MainSteps == 4

\* the numbers of names a builder is made from
StepCounts == (0..MaxSteps) \cup {MainSteps}

\* StepBuilder::new(names), and INTERACTIVE as the threads will read it
InitStep ==
    /\ interactive \in BOOLEAN
    /\ max_num \in StepCounts
    /\ names = max_num
    /\ current_num = 0
    /\ last_step_bool = 0
    /\ done = <<>> /\ tpc = <<>> /\ stdout = <<>>
    /\ mpc = "ready" /\ calls = 0 /\ ret = "pending"
    /\ ImageIdle /\ DistIdle /\ SearchIdle /\ palette = <<>>
    /\ GenIdle
    /\ HexIdle /\ SerdeIdle /\ PalIdle /\ WebIdle /\ CliIdle /\ ConvIdle

stepRest ==
    <<imgVars, distVars, palette, color, found, genVars, hexVars, serdeVars,
      palVars, webVars, cliVars, convVars>>

\* the number of next() calls made on a builder of n names: main calls
\* once more than it has steps; a builder of up to MaxSteps names is called
\* up to MaxExtraCalls times more than it has names
MaxCalls(n) == IF n <= MaxSteps THEN n + MaxExtraCalls ELSE n + 1

\* next(), first statement: the flag of the step started last is stored,
\* or, when there is none, current_num is asserted to be 0
NextStore ==
    /\ mpc = "ready"
    /\ calls < MaxCalls(max_num)
    /\ calls' = calls + 1
    /\ ret' = "pending"
    /\ IF last_step_bool # 0
       THEN /\ done' = [done EXCEPT ![last_step_bool] = TRUE]
            /\ mpc' = "stored"
       ELSE /\ mpc' = IF current_num = 0 THEN "stored" ELSE "panicked"
            /\ UNCHANGED done
    /\ UNCHANGED <<interactive, max_num, current_num, names, last_step_bool,
                   tpc, stdout>>

\* a mutant of NextSpawn: the exhaustion test lets one step more through
NextSpawnLate ==
    /\ mpc = "stored"
    /\ IF current_num > max_num
       THEN /\ ret' = "None" /\ mpc' = "ready"
            /\ UNCHANGED <<current_num, names, last_step_bool, done, tpc>>
       ELSE IF names = 0
       THEN /\ mpc' = "panicked"
            /\ current_num' = (current_num + 1) % 256
            /\ UNCHANGED <<ret, names, last_step_bool, done, tpc>>
       ELSE /\ current_num' = (current_num + 1) % 256
            /\ names' = names - 1
            /\ done' = Append(done, FALSE)
            /\ tpc' = Append(tpc, "spawned")
            /\ last_step_bool' = Len(done) + 1
            /\ ret' = "Some" /\ mpc' = "ready"
    /\ UNCHANGED <<interactive, max_num, calls, stdout>>

\* a mutant of NextSpawn: the started step's flag is not kept
NextSpawnDropsFlag ==
    /\ mpc = "stored"
    /\ IF current_num >= max_num
       THEN /\ ret' = "None" /\ mpc' = "ready"
            /\ UNCHANGED <<current_num, names, last_step_bool, done, tpc>>
       ELSE IF names = 0
       THEN /\ mpc' = "panicked"
            /\ current_num' = (current_num + 1) % 256
            /\ UNCHANGED <<ret, names, last_step_bool, done, tpc>>
       ELSE /\ current_num' = (current_num + 1) % 256
            /\ names' = names - 1
            /\ done' = Append(done, FALSE)
            /\ tpc' = Append(tpc, "spawned")
            /\ UNCHANGED last_step_bool
            /\ ret' = "Some" /\ mpc' = "ready"
    /\ UNCHANGED <<interactive, max_num, calls, stdout>>

\* next(), the rest: None when the steps are used up; otherwise current_num
\* (a u8) is incremented, the next name is taken, Step::start makes the
\* step's flag and spawns its thread, and the flag is kept
NextSpawn ==
    /\ mpc = "stored"
    /\ IF current_num >= max_num
       THEN /\ ret' = "None" /\ mpc' = "ready"
            /\ UNCHANGED <<current_num, names, last_step_bool, done, tpc>>
       ELSE IF names = 0
       THEN /\ mpc' = "panicked"
            /\ current_num' = (current_num + 1) % 256
            /\ UNCHANGED <<ret, names, last_step_bool, done, tpc>>
       ELSE /\ current_num' = (current_num + 1) % 256
            /\ names' = names - 1
            /\ done' = Append(done, FALSE)
            /\ tpc' = Append(tpc, "spawned")
            /\ last_step_bool' = Len(done) + 1
            /\ ret' = "Some" /\ mpc' = "ready"
    /\ UNCHANGED <<interactive, max_num, calls, stdout>>

\* main: the work that follows a step returns Err and `?` returns it
MainFail ==
    /\ mpc = "ready" /\ ret = "Some"
    /\ mpc' = "failed"
    /\ UNCHANGED <<interactive, max_num, current_num, names, last_step_bool,
                   done, tpc, stdout, calls, ret>>

\* main: next() returned None, the final assert holds, main returns Ok
MainReturn ==
    /\ mpc = "ready" /\ ret = "None"
    /\ mpc' = "returned"
    /\ UNCHANGED <<interactive, max_num, current_num, names, last_step_bool,
                   done, tpc, stdout, calls, ret>>

\* a mutant of Thread: the loop goes on whatever the flag holds
ThreadKeepsPrinting(k) ==
    /\ k \in 1..Len(tpc)
    /\ CASE tpc[k] = "spawned" ->
              IF interactive
              THEN /\ stdout' = Append(stdout, <<"header", k>>)
                   /\ tpc' = [tpc EXCEPT ![k] = "loop"]
              ELSE /\ tpc' = [tpc EXCEPT ![k] = "exit"]
                   /\ UNCHANGED stdout
         [] tpc[k] = "loop" ->
              /\ tpc' = [tpc EXCEPT ![k] = "loop"]
              /\ UNCHANGED stdout
         [] tpc[k] = "finishing" ->
              /\ stdout' = Append(stdout, <<"finished", k>>)
              /\ tpc' = [tpc EXCEPT ![k] = "exit"]
         [] OTHER -> FALSE
    /\ UNCHANGED <<interactive, max_num, current_num, names, last_step_bool,
                   done, mpc, calls, ret>>

\* one step of the thread of step k: it returns at once when not
\* interactive; otherwise it prints the header, then loops (load the flag,
\* print the elapsed time over the previous one) until a load finds the
\* flag set, then prints "(Finished)". stdout records the headers and the
\* "(Finished)" lines; the elapsed times overwrite each other in place and
\* are not recorded, so a turn of the loop that finds the flag unset
\* leaves the state as it is
Thread(k) ==
    /\ k \in 1..Len(tpc)
    /\ CASE tpc[k] = "spawned" ->
              IF interactive
              THEN /\ stdout' = Append(stdout, <<"header", k>>)
                   /\ tpc' = [tpc EXCEPT ![k] = "loop"]
              ELSE /\ tpc' = [tpc EXCEPT ![k] = "exit"]
                   /\ UNCHANGED stdout
         [] tpc[k] = "loop" ->
              /\ tpc' = [tpc EXCEPT ![k] = IF done[k] THEN "finishing"
                                           ELSE "loop"]
              /\ UNCHANGED stdout
         [] tpc[k] = "finishing" ->
              /\ stdout' = Append(stdout, <<"finished", k>>)
              /\ tpc' = [tpc EXCEPT ![k] = "exit"]
         [] OTHER -> FALSE
    /\ UNCHANGED <<interactive, max_num, current_num, names, last_step_bool,
                   done, mpc, calls, ret>>

\* the largest number of step threads
MaxThreads == IF MaxSteps > MainSteps THEN MaxSteps ELSE MainSteps

NextStep ==
    \/ NextStore /\ UNCHANGED stepRest
    \/ NextSpawn /\ UNCHANGED stepRest
    \/ MainFail /\ UNCHANGED stepRest
    \/ MainReturn /\ UNCHANGED stepRest
    \/ \E k \in 1..MaxThreads : Thread(k) /\ UNCHANGED stepRest

StepSpec == InitStep /\ [][NextStep]_vars

\* every step thread keeps being scheduled while it can take a step
StepFairSpec ==
    StepSpec /\ \A k \in 1..MaxThreads : WF_vars(Thread(k) /\ UNCHANGED stepRest)

----------------------------------------------------------------------------
(* Properties of map_image_to_palette (checked under Spec) *)

FastLayout == layout \in {"Rgb8", "Rgba8"}

\* the palette entry nearest to the RGBA value c (palette not empty)
Nearest(c) == palette[closest_color_in_pallete(c, palette)]

\* C1: on the fallback arm (a layout that is neither Rgb8 nor Rgba8) with a
\* non-empty palette, when the call returns every pixel of the caller's
\* image holds the nearest palette entry of its original RGBA-normalized
\* value.
C1_FallbackWritesBack ==
    (pc = "returned" /\ ~FastLayout /\ palette # <<>>)
        => \A i \in 1..NumPixels :
               into_rgba8(layout, img[i]) = Nearest(into_rgba8(layout, img0[i]))

\* C2: after the call returns for a non-empty palette, every pixel of the
\* caller's image is some palette entry (as a pixel of the buffer's own
\* format), whatever the layout and the entries' alpha.
C2_PaletteMembership ==
    (pc = "returned" /\ palette # <<>>)
        => \A i \in 1..NumPixels :
               \E k \in 1..Len(palette) : img[i] = put_pixel(layout, palette[k])

\* C3: the sequential build and the rayon build leave identical pixel
\* buffers for the same image and palette, for every layout.
C3_SeqEqualsPar ==
    (pc = "returned" /\ pcSeq = "returned") => img = imgSeq

\* the buffer the per-pixel tasks work on, and what it held when they began
TaskBuffer == IF pc = "fallback" THEN buf ELSE img
TaskBuffer0 ==
    IF FastLayout THEN img0
    ELSE [i \in 1..NumPixels |-> into_rgba8(layout, img0[i])]

\* what a pixel's task leaves in place of the pixel value p
Mapped(p) ==
    IF layout = "Rgb8"
    THEN LET col == Nearest(<<p[1], p[2], p[3], 255>>)
         IN  <<col[1], col[2], col[3]>>
    ELSE Nearest(p)

\* C4: in the parallel traversal a pixel is written by its own task only:
\* while tasks run, a pixel whose task has not run holds its prior value and
\* a pixel whose task has run (on whichever worker) holds the nearest entry
\* of its own prior value, whatever the order of the tasks; so the buffer
\* after the last task is the same for every interleaving and assignment.
C4_TasksIndependent ==
    /\ pc \in {"rgb8", "rgba8", "fallback"} =>
           \A i \in 1..NumPixels :
               /\ (i \in pending) <=> (owner[i] = 0)
               /\ i \in pending => TaskBuffer[i] = TaskBuffer0[i]
               /\ i \notin pending =>
                      /\ owner[i] \in 1..NumWorkers
                      /\ TaskBuffer[i] = Mapped(TaskBuffer0[i])
    /\ (pc = "returned" /\ FastLayout) =>
           \A i \in 1..NumPixels :
               /\ owner[i] \in 1..NumWorkers
               /\ img[i] = Mapped(img0[i])

\* C4's case: two different pixels mapped to two different entries by tasks
\* on two different workers, and the call returned
C4_Witness ==
    /\ pc = "returned" /\ layout = "Rgba8" /\ NumPixels >= 2
    /\ owner[1] # owner[2]
    /\ img[1] # img[2] /\ img0[1] # img0[2]
    /\ img # img0

\* C6: with an empty palette the call never returns normally and never
\* writes a pixel, whatever the image's dimensions and layout.
C6_EmptyPalettePanics ==
    palette = <<>> => (pc # "returned" /\ pcSeq # "returned" /\ img = img0)

\* the number of channels of a pixel of each layout
Channels(l) ==
    CASE l = "Rgb8" -> 3
      [] l = "Rgba8" -> 4
      [] l = "Luma8" -> 1

\* a buffer of the image's dimensions and pixel format
WellFormed(b) ==
    /\ Len(b) = width * height
    /\ \A i \in 1..Len(b) : Len(b[i]) = Channels(layout)

\* C11: a step of map_image_to_palette changes nothing but pixel values:
\* the image's width, height and layout stay as they are, the buffer keeps
\* its dimensions and pixel format, and the palette keeps its entries and
\* their order (in both builds).
C11_OnlyPixelsChange ==
    [][/\ width' = width /\ height' = height /\ layout' = layout
       /\ palette' = palette
       /\ WellFormed(img) => WellFormed(img')
       /\ WellFormed(imgSeq) => WellFormed(imgSeq')]_vars

\* C11's case: the call returned and pixels of a three-channel image were
\* rewritten
C11_Witness ==
    /\ pc = "returned" /\ pcSeq = "returned"
    /\ layout = "Rgb8" /\ NumPixels >= 2
    /\ img # img0 /\ imgSeq # img0
    /\ WellFormed(img)

----------------------------------------------------------------------------
(* Properties of closest_color_in_pallete (checked under SearchSpec) *)

\* the distance of the query to entry j
D(j) == Distance_new(color, palette[j])

----------------------------------------------------------------------------
(* Properties of EuclidianDistance (checked under DistSpec) *)

\* the sum of the squared differences of all four channels
SymmetricSum(l, r) ==
    (l[1] - r[1]) ^ 2 + (l[2] - r[2]) ^ 2 + (l[3] - r[3]) ^ 2 + (l[4] - r[4]) ^ 2

\* C7: the distance is the sum over all four channels of the squared
\* difference between left's and right's channel.
C7_SymmetricFormula ==
    dist # <<>> => dist = U32(SymmetricSum(left, right))

\* C8: two colours that differ only in alpha are at a non-zero distance.
C8_AlphaRespected ==
    (/\ dist # <<>>
     /\ left[1] = right[1] /\ left[2] = right[2] /\ left[3] = right[3]
     /\ left[4] # right[4])
        => dist # U32(0)

\* C9: the distance of a colour to itself is 0, and the distance is not 0
\* when the colours differ in red, in green or in blue.
C9_ZeroIffSame ==
    dist # <<>> =>
        /\ left = right => dist = U32(0)
        /\ (left[1] # right[1] \/ left[2] # right[2] \/ left[3] # right[3])
               => dist # U32(0)

\* the measurements a state holds: the last one and the one before it
Measured ==
    (IF dist # <<>> THEN {<<left, right, dist>>} ELSE {})
        \cup (IF prev # <<>> THEN {prev} ELSE {})

\* C10: the distance from white to black is greater than the distance from
\* white to (127,127,127), and greater than 0.
C10_WhiteBlackGrey ==
    \A a \in Measured :
        (a[1] = White /\ a[2] = Black) =>
            /\ U32Lt(U32(0), a[3])
            /\ \A b \in Measured :
                   (b[1] = White /\ b[2] = Grey) => U32Lt(b[3], a[3])

\* C10's case: white against black measured, then white against grey
C10_Witness ==
    /\ prev # <<>> /\ prev[1] = White /\ prev[2] = Black
    /\ left = White /\ right = Grey /\ dist # <<>>

----------------------------------------------------------------------------
(* Properties of the hex strings (checked under HexSpec) *)

HexDigits == {UpperDigits[k] : k \in 1..16} \cup {LowerDigits[k] : k \in 1..16}

\* '#' followed by exactly 6 or exactly 8 hexadecimal digits
WellFormedHex(s) ==
    /\ Len(s) \in {7, 9}
    /\ s[1] = "#"
    /\ \A k \in 2..Len(s) : s[k] \in HexDigits

\* C14: parse_hex_color accepts exactly the strings made of '#' and 6 or 8
\* hexadecimal digits (alpha 255 when there are 6) and returns None for
\* every other string, without panicking.
C14_AcceptsExactlyHex ==
    parsed # <<>> =>
        /\ parsed # Panic
        /\ parsed # None <=> WellFormedHex(hexstr)
        /\ (parsed # None /\ Len(hexstr) = 7) => parsed[4] = 255

----------------------------------------------------------------------------
(* Properties of the palette's serde impls (checked under SerdeSpec) *)

\* C12: serialization round-trips: deserializing what a palette was
\* serialized to gives the same palette, with the hex impls of
\* palette/serde.rs and with the array impls of palette.rs.
C12_RoundTrip ==
    /\ (origin = "hex" /\ via = "serde.rs") => loaded = Ok(palette)
    /\ (origin = "array" /\ via = "palette.rs") => loaded = Ok(palette)

\* C12's case: a palette with an opaque and a translucent colour went
\* through the hex impls
C12_Witness ==
    /\ origin = "hex" /\ via = "serde.rs"
    /\ Len(palette) = 2 /\ palette[1][4] = 255 /\ palette[2][4] # 255
    /\ loaded = Ok(palette)

UpperValue(ch) == (CHOOSE k \in 1..16 : UpperDigits[k] = ch) - 1

\* the example of the serializer's test
ExamplePalette == << <<12, 45, 67, 200>>, <<87, 212, 45, 255>> >>
ExampleHex ==
    << Hex(<<"#", "0", "C", "2", "D", "4", "3", "C", "8">>),
       Hex(<<"#", "5", "7", "D", "4", "2", "D">>) >>

\* C13: the hex serializer writes one string per colour, in order: '#'
\* and two upper-case hexadecimal digits per channel, 6 digits when alpha
\* is 255 and 8 otherwise; the test's palette gives "#0C2D43C8", "#57D42D".
C13_HexFormat ==
    origin = "hex" =>
        /\ Len(doc) = Len(palette)
        /\ \A i \in 1..Len(doc) :
              LET str == doc[i][2]
                  n == IF palette[i][4] = 255 THEN 3 ELSE 4
              IN  /\ doc[i][1] = "Hex"
                  /\ Len(str) = 1 + 2 * n
                  /\ str[1] = "#"
                  /\ \A k \in 2..Len(str) :
                        \E d \in 1..16 : UpperDigits[d] = str[k]
                  /\ \A j \in 1..n :
                        16 * UpperValue(str[2 * j]) + UpperValue(str[2 * j + 1])
                            = palette[i][j]
        /\ palette = ExamplePalette => doc = ExampleHex

\* C13's case: the test's palette was serialized
C13_Witness == origin = "hex" /\ palette = ExamplePalette /\ doc = ExampleHex

\* every entry of the sequence is an array
AllArrays(d) == \A i \in 1..Len(d) : d[i][1] = "Array"

\* C15: deserializing a sequence of arrays: a 3-element array is the
\* colour with alpha 255, a 4-element array the colour as written, in
\* order; an array of any other length makes the whole deserialization an
\* error (with either impl).
C15_ArrayLengths ==
    (via # "none" /\ AllArrays(doc)) =>
        IF \A i \in 1..Len(doc) : Len(doc[i][2]) \in {3, 4}
        THEN loaded = Ok([i \in 1..Len(doc) |->
                            IF Len(doc[i][2]) = 3
                            THEN doc[i][2] \o <<255>>
                            ELSE doc[i][2]])
        ELSE loaded = Err

\* C15's case: a 4-element and a 3-element array were read, in this order
C15_Witness ==
    /\ origin = "read" /\ via # "none"
    /\ doc = <<Array(<<9, 8, 7, 6>>), Array(<<1, 2, 3>>)>>
    /\ loaded = Ok(<< <<9, 8, 7, 6>>, <<1, 2, 3, 255>> >>)

----------------------------------------------------------------------------
(* Properties of Palette (checked under PalSpec) *)

----------------------------------------------------------------------------
(* Properties of the web front end's map_image (checked under WebSpec) *)

\* the variants of MapErr that map_image returns
MapErrs ==
    { "InvalidAlgorithm", "InvalidImg", "FormatNotUnderstood",
      "FailedToEncode", "InvalidPaletteString" }

\* C17: map_image never panics: every call ends in Ok(bytes) or in one of
\* the MapErr variants.
C17_NeverPanics ==
    wpc = "done" => wres \in {"Ok"} \cup MapErrs

----------------------------------------------------------------------------
(* Properties of the command line tool's main (checked under CliSpec) *)

\* the input image loads: the file opens, is read, has a format that is
\* guessed, and decodes
Loads(f) == f.opens /\ f.reads /\ f.guessed /\ f.decodes

\* C18: when the input image does not load, main ends with an error and
\* not with a panic, the conversion step is not reached and no output is
\* written.
C18_LoadFailureIsError ==
    (cpc = "done" /\ get_palette(cpal)[1] = "Ok" /\ ~Loads(cfile)) =>
        cres = "Err" /\ cstep = 2 /\ ~written

----------------------------------------------------------------------------
(* Properties of the colour conversions (checked under ConvSpec) *)

\* C19: the conversions ignore alpha: Xyz::from of an RGBA colour is
\* Xyz::from of the RGB colour with the same r, g, b; two colours that
\* differ only in alpha have the same XYZ and Lab; to_rgb drops the alpha
\* channel and to_rgba of an RGB colour sets alpha to 255.
C19_AlphaIgnored ==
    rgbOut # <<>> =>
        /\ xyzOut = Xyz_from_rgb(<<cin[1], cin[2], cin[3]>>)
        /\ rgbOut = <<cin[1], cin[2], cin[3]>>
        /\ rgbaOut = <<cin[1], cin[2], cin[3], 255>>
        /\ (/\ cprev # <<>>
            /\ \A k \in 1..3 : cprev[1][k] = cin[k]) =>
                 xyzOut = cprev[2] /\ labOut = cprev[3]

\* C19's case: a translucent colour was converted after the opaque colour
\* of the same r, g, b
C19_Witness ==
    /\ rgbOut # <<>> /\ cprev # <<>>
    /\ cin[4] = 128 /\ cprev[1][4] = 255
    /\ \A k \in 1..3 : cprev[1][k] = cin[k]
    /\ xyzOut = cprev[2]

\* C21: read_palette returns an error for every path whose extension is
\* not exactly "json" (a path without extension included), and main then
\* ends without loading the image or writing output; for a "json" path it
\* returns the deserialized palette or an error, and it never panics.
C21_ReadPalette ==
    (cpal.kind = "path" /\ cpc # "palette") =>
        /\ cpal.ext # "json" =>
              /\ cpc = "done" /\ cres = "Err" /\ cstep = 1
              /\ imgSeq = <<>> /\ ~written
        /\ cpal.ext = "json" =>
              IF cpc = "done" /\ cstep = 1
              THEN cres = "Err" /\ imgSeq = <<>> /\ ~written
              ELSE Ok(palette) = deserialize(cpal.json[2], <<>>)

----------------------------------------------------------------------------
(* Properties of the search with any DistanceAlgorithm (checked under
   GenSearchSpec) *)

\* C22: closest_color_in_pallete returns None exactly when the palette is
\* empty, whatever u32 values the distance function returns, u32::MAX
\* included.
C22_NoneIffEmpty ==
    found # -1 => (found = 0 <=> palette = <<>>)

----------------------------------------------------------------------------
(* Idempotence of the mapping (checked under SearchSpec) *)

\* the search run again on the entry it returned
Remapped == palette[closest_color_in_pallete(palette[found], palette)]

\* C23: under the Euclidean metric every palette colour is its own nearest
\* palette colour (the search for an entry returns an entry of the same
\* value), so a pixel that was mapped is mapped to itself again.
C23_Idempotent ==
    (found # -1 /\ palette # <<>>) =>
        /\ color \in Colours(palette) => palette[found] = color
        /\ Remapped = palette[found]

----------------------------------------------------------------------------
(* Range of EuclidianDistance (checked under DistSpec) *)

\* 4 * 255^2, the largest sum of four squared channel differences
MaxSquares == 4 * (255 * 255)

\* C24: EuclidianDistance::distance never panics: its i32 sum lies in
\* 0..=4*255^2, so the conversion to u32 succeeds, and the result is
\* strictly below u32::MAX.
C24_InRange ==
    /\ EuclidianSum(left, right) \in 0..MaxSquares
    /\ dist # <<>> =>
          /\ dist # Panic
          /\ dist = U32(EuclidianSum(left, right))
          /\ U32Le(dist, U32(MaxSquares))
          /\ U32Lt(dist, Distance_new_max)

\* C24's case: the two colours furthest apart have been measured
C24_Witness ==
    /\ left = White /\ right = Black
    /\ dist # <<>> /\ dist # U32(0)

----------------------------------------------------------------------------
(* The two fast paths (checked under Spec) *)

\* C25: a task of the Rgb8 path looks its pixel (r, g, b) up as
\* (r, g, b, 255) and overwrites it with the red, green and blue of the
\* winning entry, whose alpha is dropped; a task of the Rgba8 path looks
\* its pixel up with the pixel's own alpha and overwrites it with all four
\* channels of the winning entry.
C25_FastPaths ==
    [][\A i \in 1..NumPixels :
           (i \in pending /\ i \notin pending') =>
               /\ pc = "rgb8" =>
                      LET e == Nearest(<<img[i][1], img[i][2], img[i][3], 255>>)
                      IN  img'[i] = <<e[1], e[2], e[3]>>
               /\ pc = "rgba8" =>
                      LET e == Nearest(<<img[i][1], img[i][2], img[i][3],
                                         img[i][4]>>)
                      IN  img'[i] = <<e[1], e[2], e[3], e[4]>>]_vars

\* C25's case: a pixel of a three-channel image took the colour of an entry
\* whose alpha is not 255
C25_Witness ==
    /\ pc = "returned" /\ layout = "Rgb8" /\ palette # <<>>
    /\ \E i \in 1..NumPixels :
           /\ img[i] # img0[i]
           /\ Nearest(<<img0[i][1], img0[i][2], img0[i][3], 255>>)[4] # 255

----------------------------------------------------------------------------
(* Properties of StepBuilder and the step threads (checked under StepSpec
   and StepFairSpec) *)

\* the steps whose thread has been spawned
Started == 1..Len(done)

\* the started steps whose flag is not set
Unset == {k \in Started : ~done[k]}

\* the flag of step k is set
FlagSet(k) == IF k \in Started THEN done[k] ELSE FALSE

\* the thread of step k has terminated
Exited(k) == IF k \in Started THEN tpc[k] = "exit" ELSE FALSE

\* C26: a builder made from N names returns Some(()) from exactly the
\* first N calls of next() and None from every later call; current_num is
\* the number of successful calls and never exceeds max_num; the call main
\* makes after its four steps returns None, so its assert holds.
C26_ExactlyN ==
    /\ current_num <= max_num
    /\ mpc # "panicked"
    /\ (calls > 0 /\ mpc \in {"ready", "failed", "returned"}) =>
          /\ ret = (IF calls <= max_num THEN "Some" ELSE "None")
          /\ current_num = (IF calls <= max_num THEN calls ELSE max_num)
    /\ (max_num = MainSteps /\ calls = MainSteps + 1 /\ mpc = "ready")
          => ret = "None"

\* C26's case: every step of a builder was started and two further calls
\* returned None
C26_Witness ==
    /\ max_num > 1 /\ calls = max_num + 2
    /\ mpc = "ready" /\ ret = "None" /\ current_num = max_num

\* C27: the debug assertion of next() never fails: last_step_bool is None
\* only while current_num is 0, also in calls made after the steps are
\* used up and for a builder made from no names.
C27_AssertHolds ==
    /\ last_step_bool = 0 => current_num = 0
    /\ mpc # "panicked"

\* C27's case: a second call of next() on a builder made from no names has
\* evaluated the assertion
C27_Witness ==
    /\ max_num = 0 /\ calls = 2 /\ mpc = "stored"
    /\ last_step_bool = 0 /\ current_num = 0

Pos(e) ==
    IF \E j \in 1..Len(stdout) : stdout[j] = e
    THEN CHOOSE j \in 1..Len(stdout) : stdout[j] = e
    ELSE 0

\* C29: in interactive mode the "(Finished)" of step k is printed before
\* the header of step k+1, and the "(Finished)" of the last step is
\* printed before main returns.
C29_NoInterleaving ==
    interactive =>
        /\ \A k \in Started :
               Pos(<<"header", k + 1>>) # 0 =>
                   /\ Pos(<<"finished", k>>) # 0
                   /\ Pos(<<"finished", k>>) < Pos(<<"header", k + 1>>)
        /\ (mpc = "returned" /\ max_num > 0)
               => Pos(<<"finished", max_num>>) # 0

====
